---- MODULE Spec2Model ----
(***************************************************************************)
(* Mobilite Pays Basque 2050 (src/app.py): the Streamlit session and the   *)
(* scenario engine (calculer_bilan_territoire, calculer_parts_modales,     *)
(* calculer_2050).                                                         *)
(*                                                                         *)
(* Numbers.  The program computes on Python floats.  The model computes    *)
(* the same expressions exactly: every arithmetic step of the source is    *)
(* one exact operation here and the rounding of the floats is not          *)
(* modelled.  Three number types are used, because TLC's integers are 32   *)
(* bits wide and the CO2 totals in tonnes, written as fractions, are not:  *)
(*   - a rational [n, d], integers in lowest terms with d > 0, for         *)
(*     distances, percentages, intensities and occupancy rates;            *)
(*   - a wide integer, six limbs in base 10^4, the low five in 0..9999     *)
(*     and the top one signed;                                             *)
(*   - an amount [n |-> wide, d |-> integer > 0] for tonnes of CO2, and a  *)
(*     quotient [n |-> wide, d |-> wide > 0] for reduction_pct.            *)
(***************************************************************************)
EXTENDS Integers, Sequences, FiniteSets, TLC

(* ------------------------- exact rationals ----------------------------- *)

Abs(x) == IF x < 0 THEN -x ELSE x

RECURSIVE GCD(_, _)
GCD(a, b) == IF b = 0 THEN a ELSE GCD(b, a % b)

\* n/d in lowest terms, d > 0
Rat(n, d) ==
    LET s == IF d < 0 THEN -1 ELSE 1
        g == GCD(Abs(n), Abs(d))
    IN  [n |-> s * (n \div g), d |-> s * (d \div g)]

RatOfInt(i) == [n |-> i, d |-> 1]

Zero == RatOfInt(0)

RatAdd(x, y) ==
    LET g == GCD(x.d, y.d)
    IN  Rat(x.n * (y.d \div g) + y.n * (x.d \div g), (x.d \div g) * y.d)

RatNeg(x) == [n |-> -x.n, d |-> x.d]

RatSub(x, y) == RatAdd(x, RatNeg(y))

\* the product, cancelling across before multiplying
RatMul(x, y) ==
    LET g1 == GCD(Abs(x.n), y.d)
        g2 == GCD(Abs(y.n), x.d)
    IN  Rat((x.n \div g1) * (y.n \div g2), (x.d \div g2) * (y.d \div g1))

\* x / y, y # 0
RatDiv(x, y) == RatMul(x, Rat(y.d, y.n))

\* x * i / j for integers i and j # 0
RatScale(x, i, j) == RatMul(x, Rat(i, j))

RatLT(x, y) == x.n * y.d < y.n * x.d

RatLE(x, y) == x.n * y.d <= y.n * x.d

\* the sum of f[k] over the keys S, as sum() does
RECURSIVE RatSum(_, _)
RatSum(f, S) ==
    IF S = {} THEN Zero
    ELSE LET k == CHOOSE k \in S : TRUE
         IN  RatAdd(f[k], RatSum(f, S \ {k}))

(* --------------------------- wide integers ----------------------------- *)

\* the base of a limb
B == 100 * 100

\* carries propagated upwards (\div rounds down and % is never negative, so
\* the same rule serves both signs); the top limb takes what is left
Norm(r) ==
    LET t1 == r[1]
        t2 == r[2] + (t1 \div B)
        t3 == r[3] + (t2 \div B)
        t4 == r[4] + (t3 \div B)
        t5 == r[5] + (t4 \div B)
        t6 == r[6] + (t5 \div B)
    IN  <<t1 % B, t2 % B, t3 % B, t4 % B, t5 % B, t6>>

BigOfInt(i) == Norm(<<i, 0, 0, 0, 0, 0>>)

BigZero == BigOfInt(0)

BigAdd(x, y) == Norm([i \in 1..6 |-> x[i] + y[i]])

BigNeg(x) == Norm([i \in 1..6 |-> -x[i]])

BigSub(x, y) == Norm([i \in 1..6 |-> x[i] - y[i]])

\* x * a for a wide x and an integer a >= 0, a = a2*B^2 + a1*B + a0
BigMulNat(x, a) ==
    LET a0 == a % B
        a1 == (a \div B) % B
        a2 == a \div (B * B)
    IN  Norm(<<x[1] * a0,
               x[2] * a0 + x[1] * a1,
               x[3] * a0 + x[2] * a1 + x[1] * a2,
               x[4] * a0 + x[3] * a1 + x[2] * a2,
               x[5] * a0 + x[4] * a1 + x[3] * a2,
               x[6] * a0 + (x[5] + x[6] * B) * a1 + (x[4] + x[5] * B + x[6] * B * B) * a2>>)

BigMulInt(x, a) == IF a < 0 THEN BigNeg(BigMulNat(x, -a)) ELSE BigMulNat(x, a)

\* x < y, x = y, x > y as -1, 0, 1: the limbs compared from the top
RECURSIVE BigCmpFrom(_, _, _)
BigCmpFrom(x, y, i) ==
    IF i = 0 THEN 0
    ELSE IF x[i] < y[i] THEN -1
    ELSE IF x[i] > y[i] THEN 1
    ELSE BigCmpFrom(x, y, i - 1)

BigCmp(x, y) == BigCmpFrom(x, y, 6)

(* ------------------------ amounts of CO2 ------------------------------- *)

\* the amount x * y of two rationals
AmtMul(x, y) ==
    LET g1 == GCD(Abs(x.n), y.d)
        g2 == GCD(Abs(y.n), x.d)
    IN  [n |-> BigMulInt(BigOfInt(x.n \div g1), y.n \div g2),
         d |-> (x.d \div g2) * (y.d \div g1)]

AmtZero == [n |-> BigZero, d |-> 1]

AmtAdd(x, y) ==
    LET g == GCD(x.d, y.d)
    IN  [n |-> BigAdd(BigMulInt(x.n, y.d \div g), BigMulInt(y.n, x.d \div g)),
         d |-> (x.d \div g) * y.d]

AmtSub(x, y) == AmtAdd(x, [n |-> BigNeg(y.n), d |-> y.d])

\* x < y, x = y, x > y as -1, 0, 1
AmtCmp(x, y) == BigCmp(BigMulInt(x.n, y.d), BigMulInt(y.n, x.d))

AmtEq(x, y) == AmtCmp(x, y) = 0

\* the sum of f[k] over the keys S, as += over the loop does
RECURSIVE AmtSum(_, _)
AmtSum(f, S) ==
    IF S = {} THEN AmtZero
    ELSE LET k == CHOOSE k \in S : TRUE
         IN  AmtAdd(f[k], AmtSum(f, S \ {k}))

\* the quotient x / y * 100 of two amounts, y > 0
PctOf(x, y) ==
    [n |-> BigMulInt(BigMulInt(x.n, y.d), 100), d |-> BigMulInt(y.n, x.d)]

\* the percentage k, an integer
PctOfInt(k) == [n |-> BigOfInt(k), d |-> BigOfInt(1)]

\* p < k, p = k, p > k as -1, 0, 1, for a quotient p and an integer k
PctCmpInt(p, k) == BigCmp(p.n, BigMulInt(p.d, k))

(* --------------------------- the engine -------------------------------- *)

Modes == {"voiture", "bus", "train", "velo", "avion", "marche"}

\* the thirteen levers of st.session_state.scenario
ScenarioKeys ==
    {"reduction_km", "report_velo", "report_bus", "report_train",
     "report_train_avion", "taux_remplissage", "part_ve", "part_thermique",
     "part_velo_elec", "part_velo_classique", "part_bus_elec",
     "part_bus_thermique", "reduction_poids"}

\* a Python exception leaving a function
Raise(e) == [exception |-> e]

Raised(r) == r.exception # "None"

\* facteur_allegement = 1 - (reduction_poids * 0.7 / 100)
FacteurAllegement(reduction_poids) == Rat(1000 - 7 * reduction_poids, 1000)

\* variant of EmissionParPersonne: the weight factor scales the thermal
\* intensity only
EmissionParPersonneThermiqueSeul(emissions_parc, parc_config, reduction_poids) ==
    RatDiv(RatAdd(RatScale(RatMul(RatOfInt(emissions_parc.emission_thermique),
                                  FacteurAllegement(reduction_poids)),
                           parc_config.part_thermique, 100),
                  Rat(emissions_parc.voiture_electrique * parc_config.part_ve, 100)),
           parc_config.taux_occupation)

\* emission_par_personne of the car: both intensities are scaled by the
\* weight factor, the mix is blended, the blend is divided by the occupancy
EmissionParPersonne(emissions_parc, parc_config, reduction_poids) ==
    LET facteur_allegement == FacteurAllegement(reduction_poids)
        emission_thermique_ajustee ==
            RatMul(RatOfInt(emissions_parc.emission_thermique), facteur_allegement)
        emission_electrique_ajustee ==
            RatMul(RatOfInt(emissions_parc.voiture_electrique), facteur_allegement)
        emission_voiture ==
            RatAdd(RatScale(emission_thermique_ajustee, parc_config.part_thermique, 100),
                   RatScale(emission_electrique_ajustee, parc_config.part_ve, 100))
    IN  RatDiv(emission_voiture, parc_config.taux_occupation)

EmissionBus(emissions_parc, parc_bus_config) ==
    Rat(parc_bus_config.part_thermique * emissions_parc.bus_thermique
        + parc_bus_config.part_elec * emissions_parc.bus_electrique, 100)

EmissionVelo(emissions_parc, parc_velo_config) ==
    Rat(parc_velo_config.part_elec * emissions_parc.velo_elec
        + parc_velo_config.part_classique * emissions_parc.velo_classique, 100)

\* variant of Co2Mode: the weight factor scales the bus as well
Co2ModeAllegementBus(mode, km_territoire, emissions_parc, parc_config, parc_velo_config, parc_bus_config, reduction_poids) ==
    IF mode = "voiture" THEN
        AmtMul(km_territoire[mode],
               EmissionParPersonne(emissions_parc, parc_config, reduction_poids))
    ELSE IF mode = "bus" THEN
        AmtMul(km_territoire[mode],
               RatMul(EmissionBus(emissions_parc, parc_bus_config),
                      FacteurAllegement(reduction_poids)))
    ELSE IF mode = "velo" THEN
        AmtMul(km_territoire[mode], EmissionVelo(emissions_parc, parc_velo_config))
    ELSE IF mode \in {"train", "avion", "marche"} THEN
        AmtMul(km_territoire[mode], emissions_parc[mode])
    ELSE AmtZero

\* co2_mode of one pass of the loop: km * 1e6 * g / 1000 / 1000, in tonnes
Co2Mode(mode, km_territoire, emissions_parc, parc_config, parc_velo_config, parc_bus_config, reduction_poids) ==
    IF mode = "voiture" THEN
        AmtMul(km_territoire[mode],
               EmissionParPersonne(emissions_parc, parc_config, reduction_poids))
    ELSE IF mode = "bus" THEN
        AmtMul(km_territoire[mode], EmissionBus(emissions_parc, parc_bus_config))
    ELSE IF mode = "velo" THEN
        AmtMul(km_territoire[mode], EmissionVelo(emissions_parc, parc_velo_config))
    ELSE IF mode \in {"train", "avion", "marche"} THEN
        AmtMul(km_territoire[mode], emissions_parc[mode])
    ELSE AmtZero

\* variant of RetourBilan: the bike's CO2 is kept in the detail and left out
\* of the total
RetourBilanSansVelo(km_territoire, detail_par_mode) ==
    [exception |-> "None",
     co2_total_territoire |-> AmtSum(detail_par_mode, DOMAIN km_territoire \ {"velo"}),
     km_total_territoire |-> RatSum(km_territoire, DOMAIN km_territoire),
     detail_par_mode |-> detail_par_mode]

\* the dict calculer_bilan_territoire returns, from detail_par_mode
RetourBilan(km_territoire, detail_par_mode) ==
    [exception |-> "None",
     co2_total_territoire |-> AmtSum(detail_par_mode, DOMAIN km_territoire),
     km_total_territoire |-> RatSum(km_territoire, DOMAIN km_territoire),
     detail_par_mode |-> detail_par_mode]

\* calculer_bilan_territoire: the division by taux_occupation raises when the
\* occupancy is 0 and the car is one of the modes
calculer_bilan_territoire(km_territoire, emissions_parc, parc_config, parc_velo_config, parc_bus_config, reduction_poids) ==
    IF "voiture" \in DOMAIN km_territoire /\ parc_config.taux_occupation.n = 0
    THEN Raise("ZeroDivisionError")
    ELSE RetourBilan(km_territoire,
                     [mode \in DOMAIN km_territoire |->
                         Co2Mode(mode, km_territoire, emissions_parc, parc_config,
                                 parc_velo_config, parc_bus_config, reduction_poids)])

\* variant of calculer_parts_modales: a total of 0 shared out equally
calculer_parts_modales_egales(km_dict) ==
    IF RatSum(km_dict, DOMAIN km_dict) = Zero
    THEN [mode \in DOMAIN km_dict |-> Rat(100, Cardinality(DOMAIN km_dict))]
    ELSE [mode \in DOMAIN km_dict |->
             RatMul(RatDiv(km_dict[mode], RatSum(km_dict, DOMAIN km_dict)),
                    RatOfInt(100))]

\* calculer_parts_modales
calculer_parts_modales(km_dict) ==
    LET km_total == RatSum(km_dict, DOMAIN km_dict)
    IN  IF km_total = Zero
        THEN [mode \in DOMAIN km_dict |-> Zero]
        ELSE [mode \in DOMAIN km_dict |->
                 RatMul(RatDiv(km_dict[mode], km_total), RatOfInt(100))]

\* variant of km_2050_territoire: sobriety applied to the car a second time
\* before the transfers are taken
km_2050_sobriete_double(sc, km) ==
    LET f == Rat(100 + sc.reduction_km, 100)
        V == RatMul(RatMul(RatOfInt(km.voiture), f), f)
        A == RatMul(RatOfInt(km.avion), f)
        tv == RatScale(V, sc.report_velo, 100)
        tb == RatScale(V, sc.report_bus, 100)
        tt == RatScale(V, sc.report_train, 100)
        ta == RatScale(A, sc.report_train_avion, 100)
    IN  [voiture |-> RatSub(RatSub(RatSub(V, tv), tb), tt),
         bus |-> RatAdd(RatMul(RatOfInt(km.bus), f), tb),
         train |-> RatAdd(RatAdd(RatMul(RatOfInt(km.train), f), tt), ta),
         velo |-> RatAdd(RatMul(RatOfInt(km.velo), f), tv),
         avion |-> RatSub(A, ta),
         marche |-> RatMul(RatOfInt(km.marche), f)]

\* variant of km_2050_territoire: the transfers taken one after the other,
\* each from what the one before left
km_2050_cascade(sc, km) ==
    LET f == Rat(100 + sc.reduction_km, 100)
        V0 == RatMul(RatOfInt(km.voiture), f)
        A0 == RatMul(RatOfInt(km.avion), f)
        tv == RatScale(V0, sc.report_velo, 100)
        V1 == RatSub(V0, tv)
        tb == RatScale(V1, sc.report_bus, 100)
        V2 == RatSub(V1, tb)
        tt == RatScale(V2, sc.report_train, 100)
        ta == RatScale(A0, sc.report_train_avion, 100)
    IN  [voiture |-> RatSub(V2, tt),
         bus |-> RatAdd(RatMul(RatOfInt(km.bus), f), tb),
         train |-> RatAdd(RatAdd(RatMul(RatOfInt(km.train), f), tt), ta),
         velo |-> RatAdd(RatMul(RatOfInt(km.velo), f), tv),
         avion |-> RatSub(A0, ta),
         marche |-> RatMul(RatOfInt(km.marche), f)]

\* km_2050_territoire: sobriety first, then the four transfers, each taken
\* from the donor's distance after sobriety
km_2050_territoire(scenario, km_2025_territoire) ==
    LET facteur_sobriete == Rat(100 + scenario.reduction_km, 100)
        km_2025_apres_sobriete ==
            [mode \in DOMAIN km_2025_territoire |->
                RatMul(RatOfInt(km_2025_territoire[mode]), facteur_sobriete)]
        km_voiture_apres_sobriete == km_2025_apres_sobriete["voiture"]
        km_avion_apres_sobriete == km_2025_apres_sobriete["avion"]
        km_transferes_velo ==
            RatScale(km_voiture_apres_sobriete, scenario.report_velo, 100)
        km_transferes_bus ==
            RatScale(km_voiture_apres_sobriete, scenario.report_bus, 100)
        km_transferes_train_voiture ==
            RatScale(km_voiture_apres_sobriete, scenario.report_train, 100)
        km_transferes_train_avion ==
            RatScale(km_avion_apres_sobriete, scenario.report_train_avion, 100)
    IN  [voiture |-> RatSub(RatSub(RatSub(km_voiture_apres_sobriete, km_transferes_velo),
                                   km_transferes_bus),
                            km_transferes_train_voiture),
         bus |-> RatAdd(km_2025_apres_sobriete["bus"], km_transferes_bus),
         train |-> RatAdd(RatAdd(km_2025_apres_sobriete["train"],
                                 km_transferes_train_voiture),
                          km_transferes_train_avion),
         velo |-> RatAdd(km_2025_apres_sobriete["velo"], km_transferes_velo),
         avion |-> RatSub(km_avion_apres_sobriete, km_transferes_train_avion),
         marche |-> km_2025_apres_sobriete["marche"]]

\* the emission table handed to calculer_bilan_territoire: the session's
\* table and the thermal car intensity of parc_2025
emissions_parc(emissions, parc_2025) ==
    [emission_thermique |-> parc_2025.emission_thermique] @@ emissions

\* variant of session_emissions: emission_thermique is added to the
\* session's table itself
session_emissions_sans_copie(emissions, parc_2025) ==
    [emission_thermique |-> parc_2025.emission_thermique] @@ emissions

\* st.session_state.emissions after a call of calculer_2050: the key
\* emission_thermique is assigned on a copy of the table, so the session's
\* table is as it was
session_emissions(emissions, parc_2025) == emissions

\* variant of session_km_2025_territoire: the sobriety factor is applied to
\* the session's distances in place
session_km_2025_sobriete_en_place(km_2025_territoire, scenario) ==
    [mode \in DOMAIN km_2025_territoire |->
        (km_2025_territoire[mode] * (100 + scenario.reduction_km)) \div 100]

\* st.session_state.km_2025_territoire after a call of calculer_2050: the
\* distances after sobriety and the 2050 distances are new dicts, so the
\* session's distances are as they were
session_km_2025_territoire(km_2025_territoire, scenario) == km_2025_territoire

\* variant of bilan_2025: the bus fleet left at its default, all thermal
bilan_2025_bus_thermique(km, em, p25, pv25, pb25) ==
    calculer_bilan_territoire(
        [mode \in DOMAIN km |-> RatOfInt(km[mode])],
        [emission_thermique |-> p25.emission_thermique] @@ em,
        p25, pv25, [part_elec |-> 0, part_thermique |-> 100], 0)

\* the 2025 balance, as calculer_2050 and the stage-1 display compute it
bilan_2025(km_2025_territoire, emissions, parc_2025, parc_velo_2025, parc_bus_2025) ==
    calculer_bilan_territoire(
        [mode \in DOMAIN km_2025_territoire |-> RatOfInt(km_2025_territoire[mode])],
        emissions_parc(emissions, parc_2025),
        parc_2025, parc_velo_2025, parc_bus_2025, 0)

\* the 2050 balance of calculer_2050, from the 2050 distances
bilan_2050(scenario, km_2050, emissions, parc_2025) ==
    calculer_bilan_territoire(
        km_2050,
        emissions_parc(emissions, parc_2025),
        [part_thermique |-> scenario.part_thermique,
         part_ve |-> scenario.part_ve,
         taux_occupation |-> scenario.taux_remplissage],
        [part_elec |-> scenario.part_velo_elec,
         part_classique |-> scenario.part_velo_classique],
        [part_elec |-> scenario.part_bus_elec,
         part_thermique |-> scenario.part_bus_thermique],
        scenario.reduction_poids)

\* variant of reduction_pct: the division done whatever the 2025 total
reduction_pct_sans_garde(co2_2025, co2_2050) ==
    PctOf(AmtSub(co2_2025, co2_2050), co2_2025)

\* reduction_pct of the two CO2 totals
reduction_pct(co2_2025, co2_2050) ==
    IF AmtCmp(co2_2025, AmtZero) > 0
    THEN PctOf(AmtSub(co2_2025, co2_2050), co2_2025)
    ELSE PctOfInt(0)

\* variant of objectif_atteint: the threshold itself excluded
objectif_atteint_strict(pct) == PctCmpInt(pct, 80) > 0

\* objectif_atteint: reduction_pct >= 80
objectif_atteint(pct) == PctCmpInt(pct, 80) >= 0

\* the dict calculer_2050 returns, from the distances, the two balances and
\* reduction_pct
Retour2050(km_2050, b25, b50, pct) ==
    [exception |-> "None",
     km_2050_territoire |-> km_2050,
     parts_2050 |-> calculer_parts_modales(km_2050),
     bilan_2050 |-> b50,
     bilan_2025 |-> b25,
     reduction_pct |-> pct,
     objectif_atteint |-> objectif_atteint(pct)]

\* steps 5 to 7 of calculer_2050, from the two balances: an exception of
\* the 2025 balance, raised first, or of the 2050 balance ends the call
Bilans2050(km_2050, b25, b50) ==
    IF Raised(b25) THEN b25
    ELSE IF Raised(b50) THEN b50
    ELSE Retour2050(km_2050, b25, b50,
                    reduction_pct(b25.co2_total_territoire, b50.co2_total_territoire))

\* variant of Calcul2050: the 2025 balance is computed on the distances the
\* levers gave
Calcul2050BilanDesLeviers(scenario, km_2050, km_2025_territoire, emissions, parc_2025, parc_velo_2025, parc_bus_2025) ==
    Bilans2050(km_2050,
               calculer_bilan_territoire(km_2050, emissions_parc(emissions, parc_2025),
                                         parc_2025, parc_velo_2025, parc_bus_2025, 0),
               bilan_2050(scenario, km_2050, emissions, parc_2025))

\* steps 4 to 7 of calculer_2050, from the 2050 distances
Calcul2050(scenario, km_2050, km_2025_territoire, emissions, parc_2025, parc_velo_2025, parc_bus_2025) ==
    Bilans2050(km_2050,
               bilan_2025(km_2025_territoire, emissions, parc_2025,
                          parc_velo_2025, parc_bus_2025),
               bilan_2050(scenario, km_2050, emissions, parc_2025))

\* calculer_2050 on the session values it reads; a lever missing from the
\* scenario raises KeyError
calculer_2050(scenario, km_2025_territoire, emissions, parc_2025, parc_velo_2025, parc_bus_2025) ==
    IF ~(ScenarioKeys \subseteq DOMAIN scenario) THEN Raise("KeyError")
    ELSE Calcul2050(scenario, km_2050_territoire(scenario, km_2025_territoire),
                    km_2025_territoire, emissions, parc_2025, parc_velo_2025,
                    parc_bus_2025)

(* ------------------------- the session state -------------------------- *)

VARIABLES
    km_2025_territoire,    \* st.session_state.km_2025_territoire, Mkm a year
    parc_2025,             \* part_ve, part_thermique, emission_thermique, taux_occupation
    parc_velo_2025,        \* part_elec, part_classique
    parc_bus_2025,         \* part_elec, part_thermique
    emissions,             \* st.session_state.emissions, g CO2 per km
    scenario,              \* st.session_state.scenario, a dict: its keys are its DOMAIN
    bilan_2025_valide,     \* st.session_state.bilan_2025_valide
    scenario_2050_valide,  \* st.session_state.scenario_2050_valide
    leviers,               \* the values of the ten lever sliders (the *_temp of the script)
    leviers_affiches,      \* the sliders the last run rendered (scenario keys)
    resultats,             \* resultats of the last run, NoResult when it did not get there
    message,               \* the objective box of the last run: "succes", "erreur", "aucun"
    evenement,             \* what the next run is due for: a widget the user touched, st.rerun()
    erreur,                \* the exception that ended the last run, "None" when none did
    appel                  \* the calls made besides resultats = calculer_2050() and what they returned

vars == <<km_2025_territoire, parc_2025, parc_velo_2025, parc_bus_2025, emissions,
          scenario, bilan_2025_valide, scenario_2050_valide, leviers,
          leviers_affiches, resultats, message, evenement, erreur, appel>>

NoResult == [exception |-> "NotRun"]

NoCall == [exception |-> "NotRun"]

\* no run is due: the page waits for the user
Aucun == [widget |-> "aucun"]

\* the state the first run of the script builds
Km2025Initial ==
    [voiture |-> 3275, bus |-> 55, train |-> 210, velo |-> 140, avion |-> 900,
     marche |-> 70]

Parc2025Initial ==
    [part_ve |-> 3, part_thermique |-> 97, emission_thermique |-> 218,
     taux_occupation |-> Rat(13, 10)]

ParcVelo2025Initial == [part_elec |-> 15, part_classique |-> 85]

ParcBus2025Initial == [part_elec |-> 5, part_thermique |-> 95]

EmissionsInitial ==
    [voiture_electrique |-> 103, bus_thermique |-> 127, bus_electrique |-> 25,
     train |-> Rat(51, 10), velo_elec |-> 22, velo_classique |-> 5,
     avion |-> RatOfInt(225), marche |-> RatOfInt(0)]

ScenarioInitial ==
    [reduction_km |-> 0, report_velo |-> 0, report_bus |-> 0, report_train |-> 0,
     report_train_avion |-> 0, taux_remplissage |-> Rat(13, 10), part_ve |-> 3,
     part_thermique |-> 97, part_velo_elec |-> 15, part_velo_classique |-> 85,
     part_bus_elec |-> 5, part_bus_thermique |-> 95, reduction_poids |-> 0]

\* the value each slider shows when it is first rendered: value=scenario[...]
LeviersDe(sc) ==
    [part_ve_temp |-> sc.part_ve,
     part_bus_elec_temp |-> sc.part_bus_elec,
     part_velo_elec_temp |-> sc.part_velo_elec,
     reduction_km_temp |-> sc.reduction_km,
     report_velo_temp |-> sc.report_velo,
     report_bus_temp |-> sc.report_bus,
     report_train_temp |-> sc.report_train,
     report_train_avion_temp |-> sc.report_train_avion,
     taux_remplissage_temp |-> sc.taux_remplissage,
     reduction_poids_temp |-> sc.reduction_poids]

Init ==
    /\ km_2025_territoire = Km2025Initial
    /\ parc_2025 = Parc2025Initial
    /\ parc_velo_2025 = ParcVelo2025Initial
    /\ parc_bus_2025 = ParcBus2025Initial
    /\ emissions = EmissionsInitial
    /\ scenario = ScenarioInitial
    /\ bilan_2025_valide = FALSE
    /\ scenario_2050_valide = FALSE
    /\ leviers = LeviersDe(ScenarioInitial)
    /\ leviers_affiches = {}
    /\ resultats = NoResult
    /\ message = "aucun"
    /\ evenement = Aucun
    /\ erreur = "None"
    /\ appel = NoCall

(* --------------------------- one script run ---------------------------- *)

\* the objective box: st.success when resultats['objectif_atteint'], else st.error
MessageObjectif(r) == IF r.objectif_atteint THEN "succes" ELSE "erreur"

\* the session values a run reads and writes
Session ==
    [km_2025_territoire |-> km_2025_territoire, parc_2025 |-> parc_2025,
     parc_velo_2025 |-> parc_velo_2025, parc_bus_2025 |-> parc_bus_2025,
     emissions |-> emissions, scenario |-> scenario,
     bilan_2025_valide |-> bilan_2025_valide,
     scenario_2050_valide |-> scenario_2050_valide, leviers |-> leviers]

\* the lever set the Reset button installs, and scenario_ref with the two bus
\* shares added
ScenarioNeutre(s) ==
    [reduction_km |-> 0, report_velo |-> 0, report_bus |-> 0, report_train |-> 0,
     report_train_avion |-> 0,
     taux_remplissage |-> s.parc_2025.taux_occupation,
     part_ve |-> s.parc_2025.part_ve,
     part_thermique |-> s.parc_2025.part_thermique,
     part_velo_elec |-> s.parc_velo_2025.part_elec,
     part_velo_classique |-> s.parc_velo_2025.part_classique,
     part_bus_elec |-> s.parc_bus_2025.part_elec,
     part_bus_thermique |-> s.parc_bus_2025.part_thermique,
     reduction_poids |-> 0]

\* scenario_ref of the contribution section: eleven keys, no bus share
scenario_ref(s) ==
    [reduction_km |-> 0, report_velo |-> 0, report_bus |-> 0, report_train |-> 0,
     report_train_avion |-> 0,
     taux_remplissage |-> s.parc_2025.taux_occupation,
     part_ve |-> s.parc_2025.part_ve,
     part_thermique |-> s.parc_2025.part_thermique,
     part_velo_elec |-> s.parc_velo_2025.part_elec,
     part_velo_classique |-> s.parc_velo_2025.part_classique,
     reduction_poids |-> 0]

\* variant of ScenarioValide: the three complements are not assigned
ScenarioValideSansComplement(sc, lev) ==
    [part_ve |-> lev.part_ve_temp,
     part_bus_elec |-> lev.part_bus_elec_temp,
     part_velo_elec |-> lev.part_velo_elec_temp,
     reduction_km |-> lev.reduction_km_temp,
     report_velo |-> lev.report_velo_temp,
     report_bus |-> lev.report_bus_temp,
     report_train |-> lev.report_train_temp,
     report_train_avion |-> lev.report_train_avion_temp,
     taux_remplissage |-> lev.taux_remplissage_temp,
     reduction_poids |-> lev.reduction_poids_temp] @@ sc

\* the thirteen assignments of the Valider button, on the dict in place
ScenarioValide(sc, lev) ==
    [part_ve |-> lev.part_ve_temp,
     part_thermique |-> 100 - lev.part_ve_temp,
     part_bus_elec |-> lev.part_bus_elec_temp,
     part_bus_thermique |-> 100 - lev.part_bus_elec_temp,
     part_velo_elec |-> lev.part_velo_elec_temp,
     part_velo_classique |-> 100 - lev.part_velo_elec_temp,
     reduction_km |-> lev.reduction_km_temp,
     report_velo |-> lev.report_velo_temp,
     report_bus |-> lev.report_bus_temp,
     report_train |-> lev.report_train_temp,
     report_train_avion |-> lev.report_train_avion_temp,
     taux_remplissage |-> lev.taux_remplissage_temp,
     reduction_poids |-> lev.reduction_poids_temp] @@ sc

\* the keys the i-th call of calculer_scenario_partiel copies from the
\* committed scenario: the levers are added in the order car, bus and bike
\* electrification, sobriety, transfer, occupancy, weight
ModificationKeys(i) ==
    {"part_ve", "part_thermique"}
    \cup (IF i >= 2 THEN {"part_bus_elec", "part_bus_thermique"} ELSE {})
    \cup (IF i >= 3 THEN {"part_velo_elec", "part_velo_classique"} ELSE {})
    \cup (IF i >= 4 THEN {"reduction_km"} ELSE {})
    \cup (IF i >= 5 THEN {"report_velo", "report_bus", "report_train",
                          "report_train_avion"} ELSE {})
    \cup (IF i >= 6 THEN {"taux_remplissage"} ELSE {})
    \cup (IF i >= 7 THEN {"reduction_poids"} ELSE {})

\* how calculer_scenario_partiel ends, from what calculer_2050 returned on
\* scenario_temp: the committed set is put back only when it returned
RetourScenarioPartiel(s, scenario_temp, resultats_temp) ==
    IF Raised(resultats_temp)
    THEN [exception |-> resultats_temp.exception, scenario |-> scenario_temp]
    ELSE [exception |-> "None", scenario |-> s.scenario,
          co2 |-> resultats_temp.bilan_2050.co2_total_territoire]

\* calculer_scenario_partiel: the temporary lever set, scenario_ref updated
\* with the modifications, is installed in the session and calculer_2050
\* runs on it
calculer_scenario_partiel(s, scenario_temp) ==
    RetourScenarioPartiel(
        s, scenario_temp,
        calculer_2050(scenario_temp, s.km_2025_territoire, s.emissions,
                      s.parc_2025, s.parc_velo_2025, s.parc_bus_2025))

\* the seven calls from the i-th on; co2 collects what the calls returned,
\* and an exception in a call ends the run
RECURSIVE Contributions(_, _, _)
RECURSIVE ContributionsApres(_, _, _, _)
ContributionsApres(s, i, co2, c) ==
    IF Raised(c)
    THEN [exception |-> c.exception, scenario |-> c.scenario, co2 |-> co2]
    ELSE Contributions(s, i + 1, Append(co2, c.co2))

Contributions(s, i, co2) ==
    IF i > 7 THEN [exception |-> "None", scenario |-> s.scenario, co2 |-> co2]
    ELSE ContributionsApres(
             s, i, co2,
             calculer_scenario_partiel(
                 s, [k \in ModificationKeys(i) |-> s.scenario[k]] @@ scenario_ref(s)))

\* contrib_elec_voiture, ..., contrib_allegement: the i-th contribution is
\* the partial total before the i-th lever minus the one after it, the
\* first one starting from co2_2025_base
contrib(co2_2025_base, co2, i) ==
    IF i = 1 THEN AmtSub(co2_2025_base, co2[1]) ELSE AmtSub(co2[i - 1], co2[i])

\* the ten sliders in the order the script creates them, each with the
\* scenario key its value= reads
LevierOrdre ==
    <<"part_ve", "part_bus_elec", "part_velo_elec", "reduction_km", "report_velo",
      "report_bus", "report_train", "report_train_avion", "taux_remplissage",
      "reduction_poids">>

\* the *_temp name of a slider
Temp(k) ==
    CASE k = "part_ve" -> "part_ve_temp"
      [] k = "part_bus_elec" -> "part_bus_elec_temp"
      [] k = "part_velo_elec" -> "part_velo_elec_temp"
      [] k = "reduction_km" -> "reduction_km_temp"
      [] k = "report_velo" -> "report_velo_temp"
      [] k = "report_bus" -> "report_bus_temp"
      [] k = "report_train" -> "report_train_temp"
      [] k = "report_train_avion" -> "report_train_avion_temp"
      [] k = "taux_remplissage" -> "taux_remplissage_temp"
      [] k = "reduction_poids" -> "reduction_poids_temp"

\* what creating the slider of key k raises: the scenario has no such key,
\* or (occupancy slider, float bounds 1.0 and 3.0) value= is out of bounds
SliderException(sc, k) ==
    IF k \notin DOMAIN sc THEN "KeyError"
    ELSE IF k = "taux_remplissage"
            /\ ~(RatLE(Rat(10, 10), sc[k]) /\ RatLE(sc[k], Rat(30, 10)))
    THEN "StreamlitAPIException"
    ELSE "None"

\* the sliders created from the i-th on, until one raises
RECURSIVE Sliders(_, _, _)
Sliders(sc, i, rendus) ==
    IF i > Len(LevierOrdre) THEN [exception |-> "None", rendus |-> rendus]
    ELSE IF SliderException(sc, LevierOrdre[i]) # "None"
    THEN [exception |-> SliderException(sc, LevierOrdre[i]), rendus |-> rendus]
    ELSE Sliders(sc, i + 1, rendus \cup {LevierOrdre[i]})

\* the sliders after the scenario went from avant to apres: a slider keeps
\* the value the user gave it when the widget is identified by its key
\* alone, and restarts from value= when the changed value= makes it a new
\* widget
LeviersApres(lev, avant, apres, identite) ==
    IF identite = "key" THEN lev
    ELSE LET a == LeviersDe(avant)
             b == LeviersDe(apres)
         IN  [k \in DOMAIN lev |-> IF a[k] # b[k] THEN b[k] ELSE lev[k]]

\* how a run ends: the session it leaves, what it showed, whether it ended
\* in st.rerun(), and what the calls of the contribution section returned
Fin(s, affiches, r, e, rr, contributions) ==
    [session |-> s, leviers_affiches |-> affiches, resultats |-> r,
     message |-> IF Raised(r) THEN "aucun" ELSE MessageObjectif(r),
     erreur |-> e, rerun |-> rr, contributions |-> contributions]

\* lines 295-491: each stage-1 number_input returns the value the user gave
\* it, which the script assigns to the session with, for a fleet share, the
\* complement; the widgets the user did not touch return the session's value
Saisie(s, ev) ==
    CASE ev.widget = "input_km_v" ->
            [s EXCEPT !.km_2025_territoire.voiture = ev.valeur]
      [] ev.widget = "part_bus_elec_2025" ->
            [s EXCEPT !.parc_bus_2025 =
                 [part_elec |-> ev.valeur, part_thermique |-> 100 - ev.valeur]]
      [] ev.widget = "part_ve_2025" ->
            [s EXCEPT !.parc_2025.part_ve = ev.valeur,
                      !.parc_2025.part_thermique = 100 - ev.valeur]
      [] ev.widget = "taux_occupation_2025" ->
            [s EXCEPT !.parc_2025.taux_occupation = ev.valeur]
      [] ev.widget = "part_velo_elec_2025" ->
            [s EXCEPT !.parc_velo_2025 =
                 [part_elec |-> ev.valeur, part_classique |-> 100 - ev.valeur]]
      [] OTHER -> s

\* the results section, lines 826-1287, from what calculer_2050 returned
\* and how the contribution section ended
SectionResultats(s, rendus, r, c) ==
    IF Raised(r) THEN Fin(s, rendus, NoResult, r.exception, FALSE, NoCall)
    ELSE Fin([s EXCEPT !.scenario = c.scenario,
                       !.km_2025_territoire =
                           session_km_2025_territoire(s.km_2025_territoire, s.scenario),
                       !.emissions = session_emissions(s.emissions, s.parc_2025)],
             rendus, r, c.exception, FALSE,
             [exception |-> c.exception, co2 |-> c.co2])

\* the script from the sliders on, lines 641-1287, the sliders created
SectionLeviers(s, ev, identite, rendus) ==
    IF ev.widget = "reset_btn"
    THEN Fin([s EXCEPT !.scenario = ScenarioNeutre(s),
                       !.scenario_2050_valide = FALSE,
                       !.leviers = LeviersApres(s.leviers, s.scenario,
                                                ScenarioNeutre(s), identite)],
             rendus, NoResult, "None", TRUE, NoCall)
    ELSE IF ev.widget = "valider_2050"
    THEN Fin([s EXCEPT !.scenario = ScenarioValide(s.scenario, s.leviers),
                       !.scenario_2050_valide = TRUE],
             rendus, NoResult, "None", TRUE, NoCall)
    ELSE IF ~s.scenario_2050_valide
    THEN Fin(s, rendus, NoResult, "None", FALSE, NoCall)
    ELSE SectionResultats(s, rendus,
                   calculer_2050(s.scenario, s.km_2025_territoire, s.emissions,
                                 s.parc_2025, s.parc_velo_2025, s.parc_bus_2025),
                   Contributions(s, 1, <<>>))

\* variant of Etape2: the script goes on to the lever section whether or not
\* the baseline is validated
Etape2SansArret(s, ev, identite, sl) ==
    IF ev.widget = "valider_bilan"
    THEN Fin([s EXCEPT !.bilan_2025_valide = TRUE], {}, NoResult, "None", TRUE, NoCall)
    ELSE IF Raised(sl)
    THEN Fin(s, sl.rendus, NoResult, sl.exception, FALSE, NoCall)
    ELSE SectionLeviers(s, ev, identite, sl.rendus)

\* the script from the Valider le bilan button on, lines 499-1287, the
\* stage-1 inputs assigned
Etape2(s, ev, identite, sl) ==
    IF ev.widget = "valider_bilan"
    THEN Fin([s EXCEPT !.bilan_2025_valide = TRUE], {}, NoResult, "None", TRUE, NoCall)
    ELSE IF ~s.bilan_2025_valide
    THEN Fin(s, {}, NoResult, "None", FALSE, NoCall)
    ELSE IF Raised(sl)
    THEN Fin(s, sl.rendus, NoResult, sl.exception, FALSE, NoCall)
    ELSE SectionLeviers(s, ev, identite, sl.rendus)

\* one run of the script from the session s, for the event ev
Script(s, ev, identite) ==
    Etape2(Saisie(s, ev), ev, identite, Sliders(Saisie(s, ev).scenario, 1, {}))

(* ------------------------ the user and the runs ----------------------- *)

\* the user changes at most this many inputs away from their initial values
MaxModifications == 3

\* the values the user gives to the stage-1 inputs and to the sliders
KmVoitureSaisies == {0, 3275}
PartVe2025Saisies == {3, 50}
TauxOccupationSaisies == {Rat(13, 10), Rat(35, 10)}
PartBusElec2025Saisies == {5, 40}
PartVeloElec2025Saisies == {15, 30}
LevierSaisies ==
    [part_ve |-> {50}, part_bus_elec |-> {5, 100}, part_velo_elec |-> {15, 50},
     reduction_km |-> {-30, 0}, report_velo |-> {0, 50}, report_bus |-> {0, 50},
     report_train |-> {0, 50}, report_train_avion |-> {0, 100},
     taux_remplissage |-> {Rat(13, 10), Rat(30, 10)}, reduction_poids |-> {0, 10}]

\* the inputs of the session s that are away from their initial values
NbModifications(s) ==
    Cardinality({k \in DOMAIN s.leviers :
                    s.leviers[k] # LeviersDe(ScenarioInitial)[k]})
    + (IF s.km_2025_territoire # Km2025Initial THEN 1 ELSE 0)
    + (IF s.parc_2025.part_ve # Parc2025Initial.part_ve THEN 1 ELSE 0)
    + (IF s.parc_2025.taux_occupation # Parc2025Initial.taux_occupation
       THEN 1 ELSE 0)
    + (IF s.parc_bus_2025 # ParcBus2025Initial THEN 1 ELSE 0)
    + (IF s.parc_velo_2025 # ParcVelo2025Initial THEN 1 ELSE 0)

\* the page waits for the user, who gives a stage-1 input a new value: a run
\* is due
Saisir(ev) ==
    /\ evenement = Aucun
    /\ Saisie(Session, ev) # Session
    /\ NbModifications(Saisie(Session, ev)) <= MaxModifications
    /\ evenement' = ev
    /\ UNCHANGED <<km_2025_territoire, parc_2025, parc_velo_2025, parc_bus_2025,
                   emissions, scenario, bilan_2025_valide, scenario_2050_valide,
                   leviers, leviers_affiches, resultats, message, erreur, appel>>

\* number_input "Mkm voiture"
ModifierKm ==
    \E v \in KmVoitureSaisies : Saisir([widget |-> "input_km_v", valeur |-> v])

\* number_input "Part bus électriques (%)"
ModifierParcBus2025 ==
    \E v \in PartBusElec2025Saisies :
        Saisir([widget |-> "part_bus_elec_2025", valeur |-> v])

\* number_input "Part véhicules électriques (%)"
ModifierParc2025 ==
    \E v \in PartVe2025Saisies : Saisir([widget |-> "part_ve_2025", valeur |-> v])

\* number_input "Taux d'occupation moyen (pers/véh)"
ModifierTauxOccupation ==
    \E v \in TauxOccupationSaisies :
        Saisir([widget |-> "taux_occupation_2025", valeur |-> v])

\* number_input "Part vélos électriques (%)"
ModifierParcVelo2025 ==
    \E v \in PartVeloElec2025Saisies :
        Saisir([widget |-> "part_velo_elec_2025", valeur |-> v])

\* the user clicks a button: a run is due
Cliquer(bouton) ==
    /\ evenement = Aucun
    /\ evenement' = [widget |-> bouton]
    /\ UNCHANGED <<km_2025_territoire, parc_2025, parc_velo_2025, parc_bus_2025,
                   emissions, scenario, bilan_2025_valide, scenario_2050_valide,
                   leviers, leviers_affiches, resultats, message, erreur, appel>>

\* button "Valider le bilan 2025"
ValiderBilan2025 ==
    /\ ~bilan_2025_valide
    /\ Cliquer("valider_bilan")

\* the user moves the slider of scenario key k, which the last run rendered:
\* the slider's value changes and a run is due
ModifierLevier(k) ==
    /\ evenement = Aucun
    /\ k \in leviers_affiches
    /\ \E v \in LevierSaisies[k] :
           /\ v # leviers[Temp(k)]
           /\ leviers' = [leviers EXCEPT ![Temp(k)] = v]
    /\ NbModifications([Session EXCEPT !.leviers = leviers']) <= MaxModifications
    /\ evenement' = [widget |-> "slider"]
    /\ UNCHANGED <<km_2025_territoire, parc_2025, parc_velo_2025, parc_bus_2025,
                   emissions, scenario, bilan_2025_valide, scenario_2050_valide,
                   leviers_affiches, resultats, message, erreur, appel>>

LevierElectrification ==
    \E k \in {"part_ve", "part_bus_elec", "part_velo_elec"} : ModifierLevier(k)

LevierSobriete == ModifierLevier("reduction_km")

LevierReportModal ==
    \E k \in {"report_velo", "report_bus", "report_train", "report_train_avion"} :
        ModifierLevier(k)

LevierTauxRemplissage == ModifierLevier("taux_remplissage")

LevierAllegement == ModifierLevier("reduction_poids")

\* the two buttons come after the ten sliders
BoutonsAffiches == leviers_affiches = {LevierOrdre[i] : i \in 1..Len(LevierOrdre)}

\* button "Réinitialiser les leviers"
Reinitialiser ==
    /\ BoutonsAffiches
    /\ Cliquer("reset_btn")

\* button "Valider le scénario 2050"
Valider2050 ==
    /\ BoutonsAffiches
    /\ Cliquer("valider_2050")

\* the run that is due: the script from its first line to its last, to
\* st.stop(), to st.rerun() or to the exception that ends it
Run ==
    /\ evenement # Aucun
    /\ \E identite \in (IF evenement.widget = "reset_btn"
                        THEN {"key", "parametres"} ELSE {"key"}) :
       \E f \in {Script(Session, evenement, identite)} :
        /\ km_2025_territoire' = f.session.km_2025_territoire
        /\ parc_2025' = f.session.parc_2025
        /\ parc_velo_2025' = f.session.parc_velo_2025
        /\ parc_bus_2025' = f.session.parc_bus_2025
        /\ emissions' = f.session.emissions
        /\ scenario' = f.session.scenario
        /\ bilan_2025_valide' = f.session.bilan_2025_valide
        /\ scenario_2050_valide' = f.session.scenario_2050_valide
        /\ leviers' = f.session.leviers
        /\ leviers_affiches' = f.leviers_affiches
        /\ resultats' = f.resultats
        /\ message' = f.message
        /\ evenement' = IF f.rerun THEN [widget |-> "rerun"] ELSE Aucun
        /\ erreur' = f.erreur
        /\ appel' = f.contributions

Next ==
    \/ ModifierKm
    \/ ModifierParcBus2025
    \/ ModifierParc2025
    \/ ModifierTauxOccupation
    \/ ModifierParcVelo2025
    \/ ValiderBilan2025
    \/ LevierElectrification
    \/ LevierSobriete
    \/ LevierReportModal
    \/ LevierTauxRemplissage
    \/ LevierAllegement
    \/ Reinitialiser
    \/ Valider2050
    \/ Run

Spec == Init /\ [][Next]_vars

(* ------------- calculer_2050 on sampled session values ------------------ *)

\* baseline distances the number inputs accept: all zero, the initial ones,
\* a second territory, the car alone
KmProfils ==
    {[voiture |-> 0, bus |-> 0, train |-> 0, velo |-> 0, avion |-> 0, marche |-> 0],
     Km2025Initial,
     [voiture |-> 1750, bus |-> 175, train |-> 70, velo |-> 140, avion |-> 210,
      marche |-> 70],
     [voiture |-> 3275, bus |-> 0, train |-> 0, velo |-> 0, avion |-> 0, marche |-> 0]}

TauxOccupationValeurs == {Rat(10, 10), Rat(13, 10)}

Parc2025Profils ==
    {[Parc2025Initial EXCEPT !.taux_occupation = t] : t \in TauxOccupationValeurs}

\* lever values the sliders can commit
PartVeValeurs == {3, 50}
PartBusElecValeurs == {5, 100}
PartVeloElecValeurs == {15}
ReductionKmValeurs == {-40, -30, 0, 10}
ReportVeloValeurs == {0, 10}
ReportBusValeurs == {0, 50}
ReportTrainValeurs == {0, 50}
ReportTrainAvionValeurs == {0, 100}
TauxRemplissageValeurs == {Rat(10, 10), Rat(13, 10), Rat(15, 10), Rat(30, 10)}
ReductionPoidsValeurs == {0, 10}

ScenarioProfils ==
    {[reduction_km |-> rk, report_velo |-> rv, report_bus |-> rb, report_train |-> rt,
      report_train_avion |-> ra, taux_remplissage |-> tr, part_ve |-> pv,
      part_thermique |-> 100 - pv, part_velo_elec |-> pe,
      part_velo_classique |-> 100 - pe, part_bus_elec |-> pb,
      part_bus_thermique |-> 100 - pb, reduction_poids |-> rp] :
        rk \in ReductionKmValeurs, rv \in ReportVeloValeurs, rb \in ReportBusValeurs,
        rt \in ReportTrainValeurs, ra \in ReportTrainAvionValeurs,
        tr \in TauxRemplissageValeurs, pv \in PartVeValeurs,
        pe \in PartVeloElecValeurs, pb \in PartBusElecValeurs,
        rp \in ReductionPoidsValeurs}

\* a session with a validated baseline and a validated scenario, before the
\* run that displays the results
InitCalculer2050 ==
    /\ km_2025_territoire \in KmProfils
    /\ parc_2025 \in Parc2025Profils
    /\ parc_velo_2025 = ParcVelo2025Initial
    /\ parc_bus_2025 = ParcBus2025Initial
    /\ emissions = EmissionsInitial
    /\ scenario \in ScenarioProfils
    /\ bilan_2025_valide = TRUE
    /\ scenario_2050_valide = TRUE
    /\ leviers = LeviersDe(scenario)
    /\ leviers_affiches = {}
    /\ resultats = NoResult
    /\ message = "aucun"
    /\ evenement = Aucun
    /\ erreur = "None"
    /\ appel = NoCall

\* resultats = calculer_2050() and the objective box
AppelCalculer2050 ==
    /\ resultats = NoResult
    /\ resultats' = calculer_2050(scenario, km_2025_territoire, emissions, parc_2025,
                                  parc_velo_2025, parc_bus_2025)
    /\ message' = IF Raised(resultats') THEN "aucun" ELSE MessageObjectif(resultats')
    /\ km_2025_territoire' = session_km_2025_territoire(km_2025_territoire, scenario)
    /\ emissions' = session_emissions(emissions, parc_2025)
    /\ UNCHANGED <<parc_2025, parc_velo_2025, parc_bus_2025,
                   scenario, bilan_2025_valide, scenario_2050_valide,
                   leviers, leviers_affiches, evenement, erreur, appel>>

NextCalculer2050 == AppelCalculer2050

SpecCalculer2050 == InitCalculer2050 /\ [][NextCalculer2050]_vars

(* ------------------- calculer_2050 called twice ------------------------- *)

\* the lever sets of the first call: the transfers at 0 or at the top of the
\* sliders of the car, every value of reduction_km
ScenarioPremierAppel ==
    {[ScenarioInitial EXCEPT !.reduction_km = rk, !.report_velo = rv,
                             !.report_bus = rb, !.report_train = rt,
                             !.report_train_avion = ra] :
        rk \in ReductionKmValeurs, rv \in {0, 50}, rb \in {0, 50}, rt \in {0, 50},
        ra \in ReportTrainAvionValeurs}

InitDeuxAppels ==
    /\ km_2025_territoire \in KmProfils
    /\ parc_2025 = Parc2025Initial
    /\ parc_velo_2025 = ParcVelo2025Initial
    /\ parc_bus_2025 = ParcBus2025Initial
    /\ emissions = EmissionsInitial
    /\ scenario \in ScenarioPremierAppel
    /\ bilan_2025_valide = TRUE
    /\ scenario_2050_valide = TRUE
    /\ leviers = LeviersDe(scenario)
    /\ leviers_affiches = {}
    /\ resultats = NoResult
    /\ message = "aucun"
    /\ evenement = Aucun
    /\ erreur = "None"
    /\ appel = NoCall

\* a second call of calculer_2050 after the scenario was given another
\* reduction_km; appel keeps the scenario and the result of the first call
AppelAutreReductionKm ==
    /\ resultats # NoResult
    /\ appel = NoCall
    /\ \E rk \in ReductionKmValeurs \ {scenario.reduction_km} :
           scenario' = [scenario EXCEPT !.reduction_km = rk]
    /\ appel' = [exception |-> resultats.exception, scenario |-> scenario,
                 resultats |-> resultats]
    /\ resultats' = calculer_2050(scenario', km_2025_territoire, emissions, parc_2025,
                                  parc_velo_2025, parc_bus_2025)
    /\ message' = IF Raised(resultats') THEN "aucun" ELSE MessageObjectif(resultats')
    /\ km_2025_territoire' = session_km_2025_territoire(km_2025_territoire, scenario')
    /\ emissions' = session_emissions(emissions, parc_2025)
    /\ UNCHANGED <<parc_2025, parc_velo_2025, parc_bus_2025,
                   bilan_2025_valide, scenario_2050_valide,
                   leviers, leviers_affiches, evenement, erreur>>

\* a third call of calculer_2050, after the scenario was given the levers
\* of the first call again
AppelMemeScenario ==
    /\ appel # NoCall
    /\ "encore" \notin DOMAIN appel
    /\ scenario' = appel.scenario
    /\ appel' = [encore |-> TRUE] @@ appel
    /\ resultats' = calculer_2050(scenario', km_2025_territoire, emissions, parc_2025,
                                  parc_velo_2025, parc_bus_2025)
    /\ message' = IF Raised(resultats') THEN "aucun" ELSE MessageObjectif(resultats')
    /\ km_2025_territoire' = session_km_2025_territoire(km_2025_territoire, scenario')
    /\ emissions' = session_emissions(emissions, parc_2025)
    /\ UNCHANGED <<parc_2025, parc_velo_2025, parc_bus_2025,
                   bilan_2025_valide, scenario_2050_valide,
                   leviers, leviers_affiches, evenement, erreur>>

NextDeuxAppels == AppelCalculer2050 \/ AppelAutreReductionKm \/ AppelMemeScenario

SpecDeuxAppels == InitDeuxAppels /\ [][NextDeuxAppels]_vars

(* ------------- calculer_bilan_territoire called directly ---------------- *)

\* the arguments of the calls
KmTerritoireArguments ==
    {[m \in Modes |-> RatOfInt(Km2025Initial[m])], [m \in Modes |-> RatOfInt(0)]}
ParcConfigArguments ==
    {[part_thermique |-> pt, part_ve |-> pe, taux_occupation |-> t] :
        pt \in {97, 50, 60}, pe \in {3, 50, 30},
        t \in {Rat(0, 10), Rat(13, 10), Rat(15, 10)}}
ParcBusConfigArguments ==
    {[part_thermique |-> 95, part_elec |-> 5], [part_thermique |-> 60, part_elec |-> 30]}
ParcVeloConfigArguments ==
    {[part_classique |-> 85, part_elec |-> 15], [part_classique |-> 60, part_elec |-> 30]}
ReductionPoidsArguments == {0, 10}

InitBilan ==
    /\ km_2025_territoire = Km2025Initial
    /\ parc_2025 = Parc2025Initial
    /\ parc_velo_2025 = ParcVelo2025Initial
    /\ parc_bus_2025 = ParcBus2025Initial
    /\ emissions = EmissionsInitial
    /\ scenario = ScenarioInitial
    /\ bilan_2025_valide = FALSE
    /\ scenario_2050_valide = FALSE
    /\ leviers = LeviersDe(ScenarioInitial)
    /\ leviers_affiches = {}
    /\ resultats = NoResult
    /\ message = "aucun"
    /\ evenement = Aucun
    /\ erreur = "None"
    /\ \E km \in KmTerritoireArguments, pc \in ParcConfigArguments,
          pb \in ParcBusConfigArguments, pv \in ParcVeloConfigArguments,
          rp \in ReductionPoidsArguments :
           appel = [exception |-> "NotRun",
                    arguments |-> [km_territoire |-> km, parc_config |-> pc,
                                   parc_velo_config |-> pv, parc_bus_config |-> pb,
                                   reduction_poids |-> rp]]

\* calculer_bilan_territoire(km_territoire, emissions_parc, parc_config,
\* parc_velo_config, parc_bus_config, reduction_poids) on the arguments
AppelBilan ==
    /\ appel.exception = "NotRun"
    /\ \E r \in {calculer_bilan_territoire(
                     appel.arguments.km_territoire,
                     emissions_parc(emissions, parc_2025),
                     appel.arguments.parc_config,
                     appel.arguments.parc_velo_config,
                     appel.arguments.parc_bus_config,
                     appel.arguments.reduction_poids)} :
           appel' = [exception |-> r.exception, arguments |-> appel.arguments,
                     retour |-> r]
    /\ UNCHANGED <<km_2025_territoire, parc_2025, parc_velo_2025, parc_bus_2025,
                   emissions, scenario, bilan_2025_valide, scenario_2050_valide,
                   leviers, leviers_affiches, resultats, message, evenement, erreur>>

NextBilan == AppelBilan

SpecBilan == InitBilan /\ [][NextBilan]_vars

(* ------------ calculer_bilan_territoire called twice -------------------- *)

\* the distances of the two calls: the six modes, and the six modes with a
\* mode the function does not know
KmTerritoireDeuxAppels ==
    {[m \in Modes |-> RatOfInt(Km2025Initial[m])],
     [m \in Modes \cup {"trottinette"} |->
         IF m \in Modes THEN RatOfInt(Km2025Initial[m]) ELSE RatOfInt(12)]}

TauxOccupationDeuxAppels == {Rat(10, 10), Rat(13, 10), Rat(15, 10)}

InitBilanDeuxAppels ==
    /\ km_2025_territoire = Km2025Initial
    /\ parc_2025 = Parc2025Initial
    /\ parc_velo_2025 = ParcVelo2025Initial
    /\ parc_bus_2025 = ParcBus2025Initial
    /\ emissions = EmissionsInitial
    /\ scenario = ScenarioInitial
    /\ bilan_2025_valide = FALSE
    /\ scenario_2050_valide = FALSE
    /\ leviers = LeviersDe(ScenarioInitial)
    /\ leviers_affiches = {}
    /\ resultats = NoResult
    /\ message = "aucun"
    /\ evenement = Aucun
    /\ erreur = "None"
    /\ \E km \in KmTerritoireDeuxAppels, pv \in {3, 50},
          t \in TauxOccupationDeuxAppels \ {Rat(10, 10)},
          pb \in {5, 100}, rp \in ReductionPoidsArguments :
           appel = [exception |-> "NotRun",
                    arguments |->
                        [km_territoire |-> km,
                         parc_config |-> [part_thermique |-> 100 - pv, part_ve |-> pv,
                                          taux_occupation |-> t],
                         parc_velo_config |-> [part_classique |-> 85, part_elec |-> 15],
                         parc_bus_config |-> [part_thermique |-> 100 - pb, part_elec |-> pb],
                         reduction_poids |-> rp]]

\* a second call of calculer_bilan_territoire with another occupancy or
\* another reduction_poids, every other argument as in the first call;
\* appel keeps what the first call returned
AppelBilanAutreVoiture ==
    /\ appel.exception = "None"
    /\ "premier" \notin DOMAIN appel
    /\ \E t \in TauxOccupationDeuxAppels, rp \in ReductionPoidsArguments :
          /\ <<t, rp>> # <<appel.arguments.parc_config.taux_occupation,
                           appel.arguments.reduction_poids>>
          /\ \E r \in {calculer_bilan_territoire(
                           appel.arguments.km_territoire,
                           emissions_parc(emissions, parc_2025),
                           [appel.arguments.parc_config EXCEPT !.taux_occupation = t],
                           appel.arguments.parc_velo_config,
                           appel.arguments.parc_bus_config,
                           rp)} :
                 appel' = [exception |-> r.exception,
                           arguments |->
                               [appel.arguments EXCEPT !.parc_config.taux_occupation = t,
                                                       !.reduction_poids = rp],
                           retour |-> r,
                           premier |-> appel.retour]
    /\ UNCHANGED <<km_2025_territoire, parc_2025, parc_velo_2025, parc_bus_2025,
                   emissions, scenario, bilan_2025_valide, scenario_2050_valide,
                   leviers, leviers_affiches, resultats, message, evenement, erreur>>

NextBilanDeuxAppels == AppelBilan \/ AppelBilanAutreVoiture

SpecBilanDeuxAppels == InitBilanDeuxAppels /\ [][NextBilanDeuxAppels]_vars

(* ------------------- properties of calculer_2050 ----------------------- *)

\* calculer_2050 returned a result
Resultat == resultats.exception = "None"

SommeKm2025 == RatSum([m \in Modes |-> RatOfInt(km_2025_territoire[m])], Modes)

SommeReportsVoiture == scenario.report_velo + scenario.report_bus + scenario.report_train

\* C1: when the three transfers out of the car sum to at most 100 and
\* report_train_avion is at most 100, the 2050 distances returned by
\* calculer_2050 sum to the 2025 total times (1 + reduction_km/100)
C1_Conservation ==
    (Resultat /\ SommeReportsVoiture <= 100 /\ scenario.report_train_avion <= 100)
    => RatSum(resultats.km_2050_territoire, Modes)
       = RatMul(SommeKm2025, Rat(100 + scenario.reduction_km, 100))

\* a call with sobriety and transfers out of the car and the plane
C1_Witness ==
    /\ Resultat
    /\ km_2025_territoire = Km2025Initial
    /\ scenario.reduction_km = -30
    /\ scenario.report_velo = 10 /\ scenario.report_bus = 50
    /\ scenario.report_train = 0 /\ scenario.report_train_avion = 100
    /\ RatSum(resultats.km_2050_territoire, Modes) = Rat(4650 * 7, 10)

\* C2: every transferred amount is a percentage of the donor's distance
\* after sobriety and before any transfer: with f = 1 + reduction_km/100,
\* V = f*voiture and A = f*avion, the six 2050 distances are the stated ones
C2_Snapshot ==
    Resultat =>
        LET f == Rat(100 + scenario.reduction_km, 100)
            V == RatMul(f, RatOfInt(km_2025_territoire.voiture))
            A == RatMul(f, RatOfInt(km_2025_territoire.avion))
            km == resultats.km_2050_territoire
        IN  /\ km.voiture = RatSub(V, RatScale(V, SommeReportsVoiture, 100))
            /\ km.bus = RatAdd(RatMul(f, RatOfInt(km_2025_territoire.bus)),
                               RatScale(V, scenario.report_bus, 100))
            /\ km.velo = RatAdd(RatMul(f, RatOfInt(km_2025_territoire.velo)),
                                RatScale(V, scenario.report_velo, 100))
            /\ km.train = RatAdd(RatAdd(RatMul(f, RatOfInt(km_2025_territoire.train)),
                                        RatScale(V, scenario.report_train, 100)),
                                 RatScale(A, scenario.report_train_avion, 100))
            /\ km.avion = RatSub(A, RatScale(A, scenario.report_train_avion, 100))
            /\ km.marche = RatMul(f, RatOfInt(km_2025_territoire.marche))

\* two transfers out of the car at once: the bus receives 50% of the car's
\* distance after sobriety, not 50% of what the bike transfer left
C2_Witness ==
    /\ Resultat
    /\ km_2025_territoire = Km2025Initial
    /\ scenario.reduction_km = 0
    /\ scenario.report_velo = 10 /\ scenario.report_bus = 50
    /\ resultats.km_2050_territoire.bus = Rat(55 * 2 + 3275, 2)
    /\ resultats.km_2050_territoire.velo = Rat(140 * 2 + 655, 2)

\* the car's CO2 in the 2050 balance, and the car's 2050 distance
Co2Voiture2050 == resultats.bilan_2050.detail_par_mode.voiture

\* the blended car intensity of the scenario with the weight factor on the
\* thermal intensity only
IntensiteThermiqueSeul ==
    RatDiv(RatAdd(RatMul(Rat(scenario.part_thermique * parc_2025.emission_thermique, 100),
                         Rat(1000 - 7 * scenario.reduction_poids, 1000)),
                  Rat(scenario.part_ve * emissions.voiture_electrique, 100)),
           scenario.taux_remplissage)

\* the blended car intensity of the scenario with the weight factor on both
\* intensities
IntensiteDeuxMotorisations ==
    RatDiv(RatMul(Rat(scenario.part_thermique * parc_2025.emission_thermique
                      + scenario.part_ve * emissions.voiture_electrique, 100),
                  Rat(1000 - 7 * scenario.reduction_poids, 1000)),
           scenario.taux_remplissage)

\* C7 as stated: the car's CO2 is its distance times
\* (part_thermique/100 * emission_thermique * (1 - 0.7*reduction_poids/100)
\*  + part_ve/100 * voiture_electrique) / taux_occupation, the electric
\* intensity unscaled
C7_ThermiqueSeul ==
    Resultat => AmtEq(Co2Voiture2050,
                      AmtMul(resultats.km_2050_territoire.voiture, IntensiteThermiqueSeul))

\* C7: the car's CO2 is its distance times
\* (part_thermique/100 * emission_thermique + part_ve/100 * voiture_electrique)
\* * (1 - 0.7*reduction_poids/100) / taux_occupation: the weight factor
\* scales the thermal and the electric intensity alike
C7_DeuxMotorisations ==
    Resultat => AmtEq(Co2Voiture2050,
                      AmtMul(resultats.km_2050_territoire.voiture,
                             IntensiteDeuxMotorisations))

\* part_ve = 50, reduction_poids = 10, occupancy 1.5, intensities 103 and 218:
\* the intensity is (0.5*103 + 0.5*218) * 0.93 / 1.5 = 99.51
C7_Witness ==
    /\ Resultat
    /\ scenario.part_ve = 50 /\ scenario.reduction_poids = 10
    /\ scenario.taux_remplissage = Rat(15, 10)
    /\ km_2025_territoire = Km2025Initial
    /\ scenario.reduction_km = 0 /\ SommeReportsVoiture = 0
    /\ AmtEq(Co2Voiture2050, AmtMul(RatOfInt(3275), Rat(9951, 100)))

\* every lever at its neutral value
ScenarioNeutreCalculer2050 ==
    /\ scenario.reduction_km = 0
    /\ scenario.report_velo = 0 /\ scenario.report_bus = 0
    /\ scenario.report_train = 0 /\ scenario.report_train_avion = 0
    /\ scenario.part_ve = parc_2025.part_ve
    /\ scenario.part_thermique = parc_2025.part_thermique
    /\ scenario.part_bus_elec = parc_bus_2025.part_elec
    /\ scenario.part_bus_thermique = parc_bus_2025.part_thermique
    /\ scenario.part_velo_elec = parc_velo_2025.part_elec
    /\ scenario.part_velo_classique = parc_velo_2025.part_classique
    /\ scenario.taux_remplissage = parc_2025.taux_occupation
    /\ scenario.reduction_poids = 0

\* C8: with every lever neutral, calculer_2050 returns a 2050 CO2 total equal
\* to the 2025 total, reduction_pct = 0 and objectif_atteint false
C8_ZeroLevier ==
    (Resultat /\ ScenarioNeutreCalculer2050)
    => /\ AmtEq(resultats.bilan_2050.co2_total_territoire,
                resultats.bilan_2025.co2_total_territoire)
       /\ PctCmpInt(resultats.reduction_pct, 0) = 0
       /\ resultats.objectif_atteint = FALSE

\* the neutral scenario on the initial distances, a positive CO2 total
C8_Witness ==
    /\ Resultat /\ ScenarioNeutreCalculer2050
    /\ km_2025_territoire = Km2025Initial
    /\ AmtCmp(resultats.bilan_2025.co2_total_territoire, AmtZero) > 0

\* C9: reduction_pct is (co2_2025 - co2_2050) / co2_2025 * 100 when the 2025
\* CO2 total is positive, and 0, with no exception, when it is 0
C9_ReductionPct ==
    (resultats # NoResult) =>
        /\ Resultat
        /\ LET co2_2025 == resultats.bilan_2025.co2_total_territoire
               co2_2050 == resultats.bilan_2050.co2_total_territoire
               ecart == AmtSub(co2_2025, co2_2050)
           IN  IF AmtCmp(co2_2025, AmtZero) > 0
               THEN resultats.reduction_pct
                    = [n |-> BigMulInt(BigMulInt(ecart.n, co2_2025.d), 100),
                       d |-> BigMulInt(co2_2025.n, ecart.d)]
               ELSE /\ resultats.reduction_pct.d # BigZero
                    /\ PctCmpInt(resultats.reduction_pct, 0) = 0

\* all 2025 distances 0: the 2025 CO2 total is 0 and reduction_pct is 0
C9_Witness ==
    /\ Resultat
    /\ \A m \in Modes : km_2025_territoire[m] = 0
    /\ AmtEq(resultats.bilan_2025.co2_total_territoire, AmtZero)
    /\ PctCmpInt(resultats.reduction_pct, 0) = 0

\* C10: objectif_atteint is true exactly when reduction_pct >= 80, and the
\* box shown is the success one exactly when reduction_pct >= 80
C10_Objectif ==
    Resultat =>
        /\ resultats.objectif_atteint = (PctCmpInt(resultats.reduction_pct, 80) >= 0)
        /\ message = IF PctCmpInt(resultats.reduction_pct, 80) >= 0
                     THEN "succes" ELSE "erreur"

\* a reduction of exactly 80: the objective is reached
C10_Witness ==
    /\ Resultat
    /\ PctCmpInt(resultats.reduction_pct, 80) = 0
    /\ resultats.objectif_atteint
    /\ message = "succes"

\* C11: a total distance of 0 gives a share of 0 to every mode, with no
\* exception, and a 2025 total of 0 gives a reduction_pct of 0 as well
C11_TotalNul ==
    /\ (resultats # NoResult /\ SommeKm2025 = Zero) =>
           /\ Resultat
           /\ resultats.reduction_pct.d # BigZero
           /\ PctCmpInt(resultats.reduction_pct, 0) = 0
    /\ (resultats # NoResult
        /\ RatSum(resultats.km_2050_territoire, Modes) = Zero) =>
           /\ Resultat
           /\ \A m \in Modes : resultats.parts_2050[m] = Zero

\* the all-zero baseline with levers moved: every share and reduction_pct
\* are 0
C11_Witness ==
    /\ Resultat
    /\ SommeKm2025 = Zero
    /\ scenario.reduction_km = -30 /\ scenario.report_bus = 50
    /\ \A m \in Modes : resultats.parts_2050[m] = Zero
    /\ PctCmpInt(resultats.reduction_pct, 0) = 0

\* two calls were made, on lever sets that differ in reduction_km only
DeuxAppels == appel # NoCall /\ appel.exception = "None" /\ Resultat

\* C12: of two lever sets that differ only in reduction_km, the one with the
\* more negative reduction_km gives a strictly smaller total 2050 distance
\* and a 2050 CO2 total that is not larger
C12_Monotonie ==
    (DeuxAppels /\ scenario.reduction_km < appel.scenario.reduction_km) =>
        /\ RatLT(RatSum(resultats.km_2050_territoire, Modes),
                 RatSum(appel.resultats.km_2050_territoire, Modes))
        /\ AmtCmp(resultats.bilan_2050.co2_total_territoire,
                  appel.resultats.bilan_2050.co2_total_territoire) <= 0

\* the second half of C12 alone, on a baseline that is not all zero: the
\* 2050 CO2 total is not larger
C12_Co2NonCroissant ==
    (DeuxAppels /\ scenario.reduction_km < appel.scenario.reduction_km
     /\ SommeKm2025 # Zero) =>
        AmtCmp(resultats.bilan_2050.co2_total_territoire,
               appel.resultats.bilan_2050.co2_total_territoire) <= 0

\* the third call was made: the levers of the first call, after a call on
\* other levers
TroisAppels == appel # NoCall /\ "encore" \in DOMAIN appel

C16_SessionInchangee ==
    [][AppelCalculer2050 =>
          UNCHANGED <<km_2025_territoire, parc_2025, parc_velo_2025, parc_bus_2025,
                      emissions, scenario>>]_vars

C16_Witness ==
    /\ Resultat
    /\ SommeKm2025 # Zero
    /\ scenario.reduction_km = -40
    /\ emissions = EmissionsInitial
    /\ "emission_thermique" \notin DOMAIN emissions
    /\ km_2025_territoire \in KmProfils

\* the balance a direct call of calculer_bilan_territoire returned, and the
\* arguments of the call
BilanRetourne == appel.exception = "None" /\ "retour" \in DOMAIN appel
Detail == appel.retour.detail_par_mode
Arg == appel.arguments

\* the per-km intensities of the car, the bus and the bike for the
\* arguments of the call, in g
IntensiteVoiture ==
    RatDiv(RatMul(Rat(Arg.parc_config.part_thermique * parc_2025.emission_thermique
                      + Arg.parc_config.part_ve * emissions.voiture_electrique, 100),
                  Rat(1000 - 7 * Arg.reduction_poids, 1000)),
           Arg.parc_config.taux_occupation)
IntensiteBus ==
    Rat(Arg.parc_bus_config.part_thermique * emissions.bus_thermique
        + Arg.parc_bus_config.part_elec * emissions.bus_electrique, 100)
IntensiteVelo ==
    Rat(Arg.parc_velo_config.part_elec * emissions.velo_elec
        + Arg.parc_velo_config.part_classique * emissions.velo_classique, 100)

\* C17: in a balance calculer_bilan_territoire returns, co2_total_territoire
\* is the sum of the six values of detail_par_mode, each value is the mode's
\* distance times its per-km intensity, and km_total_territoire is the sum
\* of the input distances
C17_Bilan ==
    BilanRetourne =>
        /\ AmtEq(appel.retour.co2_total_territoire,
                 AmtAdd(AmtAdd(AmtAdd(Detail.voiture, Detail.bus),
                               AmtAdd(Detail.train, Detail.velo)),
                        AmtAdd(Detail.avion, Detail.marche)))
        /\ AmtEq(Detail.voiture, AmtMul(Arg.km_territoire.voiture, IntensiteVoiture))
        /\ AmtEq(Detail.bus, AmtMul(Arg.km_territoire.bus, IntensiteBus))
        /\ AmtEq(Detail.velo, AmtMul(Arg.km_territoire.velo, IntensiteVelo))
        /\ \A m \in {"train", "avion", "marche"} :
               AmtEq(Detail[m], AmtMul(Arg.km_territoire[m], emissions[m]))
        /\ appel.retour.km_total_territoire
               = RatAdd(RatAdd(RatAdd(Arg.km_territoire.voiture, Arg.km_territoire.bus),
                               RatAdd(Arg.km_territoire.train, Arg.km_territoire.velo)),
                        RatAdd(Arg.km_territoire.avion, Arg.km_territoire.marche))

C17_Witness ==
    /\ BilanRetourne
    /\ Arg.km_territoire.voiture = RatOfInt(3275)
    /\ Arg.parc_config.part_ve = 50 /\ Arg.reduction_poids = 10
    /\ AmtCmp(Detail.velo, AmtZero) > 0
    /\ AmtCmp(appel.retour.co2_total_territoire, Detail.voiture) > 0

\* C18: calculer_bilan_territoire called with an occupancy rate of 0 raises
\* no exception and returns a balance
C18_TauxOccupationNul ==
    (appel.exception # "NotRun" /\ Arg.parc_config.taux_occupation = Zero) =>
        BilanRetourne

\* the 2025 balance of the stage-1 display: calculer_bilan_territoire on the
\* session's distances, emission table and 2025 fleets, reduction_poids 0
Bilan2025Etape1 ==
    calculer_bilan_territoire(
        [mode \in Modes |-> RatOfInt(km_2025_territoire[mode])],
        [emission_thermique |-> parc_2025.emission_thermique] @@ emissions,
        parc_2025, parc_velo_2025, parc_bus_2025, 0)

\* C25: bilan_2025 in the result of calculer_2050 is the 2025 balance of the
\* stage-1 display, which is computed from the baseline alone: it is the
\* same for every lever set
C25_Bilan2025SansLevier ==
    Resultat => resultats.bilan_2025 = Bilan2025Etape1

C25_Witness ==
    /\ Resultat
    /\ SommeKm2025 # Zero
    /\ scenario.reduction_km = -30 /\ scenario.report_bus = 50
    /\ scenario.part_ve = 50 /\ scenario.reduction_poids = 10
    /\ resultats.bilan_2025 = Bilan2025Etape1
    /\ AmtCmp(resultats.bilan_2050.co2_total_territoire,
              resultats.bilan_2025.co2_total_territoire) < 0

\* C26: when the total 2050 distance is positive, the shares of parts_2050
\* sum to 100 and each share lies within [0, 100]
C26_PartsModales ==
    (Resultat /\ RatLT(Zero, RatSum(resultats.km_2050_territoire, Modes))) =>
        /\ RatSum(resultats.parts_2050, Modes) = RatOfInt(100)
        /\ \A m \in Modes :
               /\ RatLE(Zero, resultats.parts_2050[m])
               /\ RatLE(resultats.parts_2050[m], RatOfInt(100))

\* the first half of C26 alone: the shares sum to 100
C26_Somme100 ==
    (Resultat /\ RatLT(Zero, RatSum(resultats.km_2050_territoire, Modes))) =>
        RatSum(resultats.parts_2050, Modes) = RatOfInt(100)

\* calculer_bilan_territoire returned twice, the second time with another
\* occupancy or reduction_poids
DeuxBilans == appel.exception = "None" /\ "premier" \in DOMAIN appel

\* C27: for the same distances and bus and bike fleets, the CO2 of every
\* mode but the car is the same whatever reduction_poids and
\* taux_occupation are, and a mode that is not one of the six has a CO2 of
\* 0 and adds nothing to the total
C27_VoitureSeule ==
    /\ DeuxBilans =>
           \A m \in DOMAIN Arg.km_territoire \ {"voiture"} :
               Detail[m] = appel.premier.detail_par_mode[m]
    /\ BilanRetourne =>
           /\ \A m \in DOMAIN Arg.km_territoire \ Modes : Detail[m] = AmtZero
           /\ AmtEq(appel.retour.co2_total_territoire, AmtSum(Detail, Modes))

C27_Witness ==
    /\ DeuxBilans
    /\ "trottinette" \in DOMAIN Arg.km_territoire
    /\ Arg.reduction_poids = 10 /\ Arg.parc_config.taux_occupation = Rat(15, 10)
    /\ Detail.trottinette = AmtZero
    /\ AmtCmp(Detail.bus, AmtZero) > 0
    /\ Detail.bus = appel.premier.detail_par_mode.bus
    /\ AmtCmp(Detail.voiture, appel.premier.detail_par_mode.voiture) < 0

(* ---------------------- properties of the session ---------------------- *)

\* the sum of the first i contributions
RECURSIVE SommeContributions(_, _, _)
SommeContributions(co2_2025_base, co2, i) ==
    IF i = 0 THEN AmtZero
    ELSE AmtAdd(SommeContributions(co2_2025_base, co2, i - 1),
                contrib(co2_2025_base, co2, i))

\* C13: a run that displays a result has made the seven calls of the
\* decomposition, the seven contributions sum to the 2025 CO2 total minus
\* the CO2 total of the committed scenario, and the last partial total is
\* the CO2 total of bilan_2050 of the displayed result
C13_Decomposition ==
    Resultat =>
        /\ appel.exception = "None"
        /\ Len(appel.co2) = 7
        /\ AmtEq(SommeContributions(resultats.bilan_2025.co2_total_territoire,
                                    appel.co2, 7),
                 AmtSub(resultats.bilan_2025.co2_total_territoire,
                        resultats.bilan_2050.co2_total_territoire))
        /\ AmtEq(appel.co2[7], resultats.bilan_2050.co2_total_territoire)

\* C14: a run made with the baseline and the scenario both validated ends
\* with no exception, after seven calls of calculer_scenario_partiel that
\* each returned a CO2 total
C14_DecompositionComplete ==
    (bilan_2025_valide /\ scenario_2050_valide /\ evenement = Aucun) =>
        /\ erreur = "None"
        /\ appel # NoCall
        /\ appel.exception = "None"
        /\ Len(appel.co2) = 7

\* the run that is due was caused by the user changing a baseline input or
\* a slider
EntreeModifiee ==
    evenement.widget \in {"input_km_v", "part_bus_elec_2025", "part_ve_2025",
                          "taux_occupation_2025", "part_velo_elec_2025", "slider"}

\* C19: with the baseline and the scenario validated, the run that follows
\* a change of a baseline input or of a slider displays a result, and it is
\* the one calculer_2050 computes from the new baseline and slider values
C19_Regenere ==
    [][(EntreeModifiee /\ bilan_2025_valide /\ scenario_2050_valide) =>
          /\ resultats' # NoResult
          /\ resultats' = calculer_2050(ScenarioValide(scenario', leviers'),
                                        km_2025_territoire', emissions', parc_2025',
                                        parc_velo_2025', parc_bus_2025')]_vars

\* C20: a run that calls calculer_scenario_partiel leaves the session's
\* lever set equal to what it was before the run, whether calculer_2050
\* returned or raised inside the call: the temporary lever set is never
\* left installed
C20_ScenarioRestaure ==
    [][(evenement # Aucun /\ appel' # NoCall) => scenario' = scenario]_vars

\* C3: whatever lever set was committed, no 2050 distance returned by
\* calculer_2050 is negative
C3_DistancesNonNegatives ==
    Resultat => \A m \in Modes : RatLE(Zero, resultats.km_2050_territoire[m])

\* C4: in the committed lever set each transfer is within [0, 100] and the
\* three transfers out of the car sum to at most 100
C4_TransfertsBornes ==
    /\ \A k \in {"report_velo", "report_bus", "report_train", "report_train_avion"} :
           0 <= scenario[k] /\ scenario[k] <= 100
    /\ SommeReportsVoiture <= 100

\* the two shares of a scenario mix are both there and sum to 100, or
\* neither is there
MixScenario(k1, k2) ==
    (k1 \in DOMAIN scenario \/ k2 \in DOMAIN scenario)
    => /\ k1 \in DOMAIN scenario /\ k2 \in DOMAIN scenario
       /\ scenario[k1] + scenario[k2] = 100

C21_TreizeLeviers ==
    evenement # Aucun => ScenarioKeys \subseteq DOMAIN scenario

\* the fleet shares and the occupancy of the committed lever set are those
\* of the 2025 fleets
MixScenarioDe2025 ==
    /\ scenario.part_ve = parc_2025.part_ve
    /\ scenario.part_thermique = parc_2025.part_thermique
    /\ scenario.part_bus_elec = parc_bus_2025.part_elec
    /\ scenario.part_bus_thermique = parc_bus_2025.part_thermique
    /\ scenario.part_velo_elec = parc_velo_2025.part_elec
    /\ scenario.part_velo_classique = parc_velo_2025.part_classique
    /\ scenario.taux_remplissage = parc_2025.taux_occupation

\* C24: as long as the baseline is not validated, so that the scenario was
\* neither validated nor reset, the fleet shares and the occupancy of the
\* committed lever set equal the 2025 values the session holds
C24_MixDe2025 ==
    ~bilan_2025_valide => MixScenarioDe2025

\* C22: the scenario becomes validated only in a run where the baseline is
\* validated, bilan_2025_valide never goes back to false, a run displays a
\* result of calculer_2050 only when both are validated, and
\* scenario_2050_valide implies bilan_2025_valide in every state
C22_OrdreDesValidations ==
    [][/\ (scenario_2050_valide' /\ ~scenario_2050_valide) => bilan_2025_valide
       /\ bilan_2025_valide => bilan_2025_valide'
       /\ (evenement # Aucun /\ resultats' # NoResult) =>
              /\ bilan_2025_valide /\ scenario_2050_valide
              /\ bilan_2025_valide' /\ scenario_2050_valide'
       /\ scenario_2050_valide => bilan_2025_valide
       /\ scenario_2050_valide' => bilan_2025_valide']_vars

C22_Witness ==
    /\ bilan_2025_valide /\ scenario_2050_valide
    /\ Resultat
    /\ evenement = Aucun
    /\ leviers.reduction_km_temp = -30

\* C23: the run of a click on Reset leaves a lever set of thirteen levers
\* with reduction_km, the four transfers and reduction_poids at 0 and the
\* fleet shares and occupancy of the 2025 fleets, sets scenario_2050_valide
\* to false and displays no result; and no result is displayed while
\* scenario_2050_valide is false
C23_Reinitialisation ==
    [][/\ evenement.widget = "reset_btn" =>
              /\ DOMAIN scenario' = ScenarioKeys
              /\ scenario'.reduction_km = 0
              /\ scenario'.report_velo = 0 /\ scenario'.report_bus = 0
              /\ scenario'.report_train = 0 /\ scenario'.report_train_avion = 0
              /\ scenario'.reduction_poids = 0
              /\ MixScenarioDe2025'
              /\ <<parc_2025', parc_velo_2025', parc_bus_2025'>>
                     = <<parc_2025, parc_velo_2025, parc_bus_2025>>
              /\ ~scenario_2050_valide'
              /\ resultats' = NoResult
       /\ ~scenario_2050_valide' => resultats' = NoResult]_vars

(* -------------- properties of calculer_bilan_territoire ----------------- *)

\* one of the three mixes handed to the call does not sum to 100
MixInvalide ==
    \/ appel.arguments.parc_config.part_thermique
       + appel.arguments.parc_config.part_ve # 100
    \/ appel.arguments.parc_bus_config.part_thermique
       + appel.arguments.parc_bus_config.part_elec # 100
    \/ appel.arguments.parc_velo_config.part_classique
       + appel.arguments.parc_velo_config.part_elec # 100

\* C6: a call of calculer_bilan_territoire with a mix that does not sum to
\* 100 ends in an invalid-fleet-mix error and returns no total
C6_MixRejete ==
    (appel.exception # "NotRun" /\ MixInvalide) => appel.exception = "InvalidFleetMix"

====
